---- MODULE Spec2Model ----
(***************************************************************************)
(* A model of src/manager/db.py: DBAdapter, a SQLite wrapper holding ONE   *)
(* shared connection, an append-only history log and SCD2 (slowly changing *)
(* dimension, type 2) upserts.                                             *)
(*                                                                         *)
(* The connection is modelled as Python's sqlite3 module drives it (legacy *)
(* transaction control, the default): INSERT and UPDATE open a transaction *)
(* implicitly when none is open; DDL and SELECT do not; "with conn:"       *)
(* commits on a normal exit and rolls back when an exception leaves the    *)
(* block.  db is what the connection sees, saved is what a rollback        *)
(* restores (the state at the last commit).                                *)
(*                                                                         *)
(* Threads call the public methods; one step of a thread is one statement  *)
(* on the connection, one lock acquisition, or one exit of a with-block.   *)
(***************************************************************************)
EXTENDS Integers, Sequences, FiniteSets, TLC

VARIABLES
    workload,   \* which callers and inputs drive the store (fixed by Init)
    pc,         \* pc[t]: the position of thread t inside the method it runs
    frame,      \* frame[t]: arguments and locals of the call thread t runs (or ran last)
    result,     \* result[t]: outcome of the last call thread t finished
    lockOwner,  \* holder of self._lock (0: free)
    db,         \* the database as seen through self._conn
    saved,      \* the database as of the last commit
    inTxn,      \* self._conn.in_transaction
    clock,      \* the latest time _utcnow_iso has returned
    calls,      \* number of method calls started so far
    search      \* the search_address call of src/clients/vworld_client.py

vars == <<workload, pc, frame, result, lockOwner, db, saved, inTxn, clock, calls, search>>

----------------------------------------------------------------------------
(* Bounds of the model *)

MaxCalls == 2

MaxBatch == 2

MaxClock == 1

----------------------------------------------------------------------------
(* Values.  A field value is Python None, a str, the int 1, or an object   *)
(* sqlite3 cannot bind (a list, a dict).  All are TLA+ strings here; the   *)
(* three tokens below are not among the texts used.                        *)

None == "<None>"

IntOne == "<int 1>"

Unbindable == "<list>"

\* valid_to of a current row: "9999-12-31T00:00:00+00:00"
Sentinel == 9999

\* Field and table names are sequences of characters, so that the
\* identifier grammar has something to inspect.
K == <<"k">>

A == <<"a">>

B == <<"b">>

T == <<"t">>

U == <<"u">>

Min(a, b) == IF a < b THEN a ELSE b

Range(s) == {s[i] : i \in 1..Len(s)}

NoDup(s) == \A i, j \in 1..Len(s) : i # j => s[i] # s[j]

----------------------------------------------------------------------------
(* Records: Python dicts, as insertion-ordered sequences of <<name, value>> *)

\* field in record
Has(record, field) == \E i \in 1..Len(record) : record[i][1] = field

\* record.get(field)
Get(record, field) ==
    IF Has(record, field)
    THEN record[CHOOSE i \in 1..Len(record) : record[i][1] = field][2]
    ELSE None

\* list(record.keys())
Keys(record) == [i \in 1..Len(record) |-> record[i][1]]

\* [f for f in s if keep(f)]
RECURSIVE Without(_, _)
Without(s, drop) ==
    IF s = <<>> THEN <<>>
    ELSE IF Head(s) \in drop THEN Without(Tail(s), drop)
    ELSE <<Head(s)>> \o Without(Tail(s), drop)

----------------------------------------------------------------------------
(* _compute_hash *)

\* str(value) for the values of the model: str(1) is "1", a str is its own text.
Str(value) == IF value = IntOne THEN "1" ELSE value

\* hashlib.sha256(data).hexdigest(): a digest is modelled as injective in
\* the bytes hashed (collision resistance), tagged so that it is no text.
Sha256Hex(data) == <<"sha256", data>>

\* The bytes fed to the hasher: the values' texts, one after the other.
RECURSIVE HashInput(_, _)
HashInput(record, fields) ==
    IF fields = <<>> THEN ""
    ELSE (IF Get(record, Head(fields)) = None THEN "" ELSE Str(Get(record, Head(fields))))
         \o HashInput(record, Tail(fields))

\* A hash that also takes in the record's other fields (its key).
ComputeHashOfAllFields(record, fields) == Sha256Hex(HashInput(record, Keys(record)))

ComputeHash(record, fields) == Sha256Hex(HashInput(record, fields))

----------------------------------------------------------------------------
(* Names interpolated into SQL (ensure_scd2_table and upsert_scd2 build    *)
(* their statements with f-strings; the names are not checked first).      *)
(* What SQLite makes of a name is modelled for names over the alphabet     *)
(* below: letters, digits, underscore and the blank.                       *)

Letters == {"a", "b", "k", "t", "u", "y"}

Digits == {"1"}

IdentChars == Letters \cup Digits \cup {"_"}

\* The identifier grammar of the specification: letters, digits,
\* underscore, not empty.
IsIdentifier(name) == Len(name) > 0 /\ \A i \in 1..Len(name) : name[i] \in IdentChars

\* The blank-separated words of a name.
RECURSIVE Words(_)
Words(name) ==
    IF name = <<>> THEN <<>>
    ELSE IF Head(name) = " " THEN Words(Tail(name))
    ELSE LET n == Len(name)
             stop == IF \E i \in 1..n : name[i] = " "
                     THEN (CHOOSE i \in 1..n : name[i] = " " /\ \A j \in 1..(i-1) : name[j] # " ") - 1
                     ELSE n
         IN <<SubSeq(name, 1, stop)>> \o Words(SubSeq(name, stop + 1, n))

\* One SQL identifier token.
SqlToken(word) == IsIdentifier(word) /\ word[1] \notin Digits

\* A name that SQLite reads as one identifier.
SqlName(name) == Len(Words(name)) = 1 /\ SqlToken(Words(name)[1])

\* "{name} TEXT" in a column list: the first word is the column's name and
\* the following words belong to its type; with no word at all the column
\* is named TEXT.
ColumnDefOk(name) == \A i \in 1..Len(Words(name)) : SqlToken(Words(name)[i])

ColumnName(name) == IF Words(name) = <<>> THEN <<"T", "E", "X", "T">> ELSE Words(name)[1]

----------------------------------------------------------------------------
(* The database behind the connection: the entity tables and the rows of   *)
(* ingestion_history.  A row's id is its position: ids are handed out in   *)
(* insertion order and no statement of the adapter deletes a row.          *)

\* Error kinds raised to the caller.
NoError == "-"

NoTable == [exists |-> FALSE, keys |-> <<>>, attrs |-> <<>>, key_indexes |-> {}, current_index |-> FALSE, rows |-> <<>>]

\* TEXT affinity: what a bound value is stored and compared as.
Stored(value) == IF value = IntOne THEN "1" ELSE value

ColumnNames(fields) == [i \in 1..Len(fields) |-> ColumnName(fields[i])]

Columns(tbl) == Range(tbl.keys) \cup Range(tbl.attrs)

\* CREATE TABLE IF NOT EXISTS {table} ({key_cols}, {attr_cols}, ...):
\* <<error, table afterwards>>.  An empty column list leaves ", ," in the
\* statement, which does not parse.
CreateTable(tbl, table, key_fields, attribute_fields) ==
    IF \/ ~SqlName(table)
       \/ key_fields = <<>> \/ attribute_fields = <<>>
       \/ \E i \in 1..Len(key_fields) : ~ColumnDefOk(key_fields[i])
       \/ \E i \in 1..Len(attribute_fields) : ~ColumnDefOk(attribute_fields[i])
    THEN <<"OperationalError", tbl>>
    ELSE IF tbl.exists THEN <<NoError, tbl>>
    ELSE IF ~NoDup(ColumnNames(key_fields \o attribute_fields))
    THEN <<"OperationalError", tbl>>
    ELSE <<NoError, [exists |-> TRUE, keys |-> ColumnNames(key_fields),
                     attrs |-> ColumnNames(attribute_fields), key_indexes |-> {}, current_index |-> FALSE, rows |-> <<>>]>>

\* CREATE INDEX IF NOT EXISTS idx_{table}_{idx_cols} ON {table} ({key_fields})
CreateKeyIndex(tbl, key_fields) ==
    IF \E i \in 1..Len(key_fields) : ~SqlName(key_fields[i])
    THEN <<"OperationalError", tbl>>
    ELSE IF key_fields \in tbl.key_indexes THEN <<NoError, tbl>>
    ELSE IF \E i \in 1..Len(key_fields) : ColumnName(key_fields[i]) \notin Columns(tbl)
    THEN <<"OperationalError", tbl>>
    ELSE <<NoError, [tbl EXCEPT !.key_indexes = @ \cup {key_fields}]>>

\* CREATE INDEX IF NOT EXISTS idx_{table}_current ON {table}(is_current)
CreateCurrentIndex(tbl) ==
    <<NoError, [tbl EXCEPT !.current_index = TRUE]>>

\* The three statements of ensure_scd2_table in order, stopping at the
\* first that raises.
EnsureDDL(tbl, table, key_fields, attribute_fields) ==
    LET s1 == CreateTable(tbl, table, key_fields, attribute_fields)
        s2 == CreateKeyIndex(s1[2], key_fields)
        s3 == CreateCurrentIndex(s2[2])
    IN  IF s1[1] # NoError THEN s1
        ELSE IF s2[1] # NoError THEN s2
        ELSE s3

\* Preparing a statement that names these fields as columns of tbl.
PrepareError(tbl, fields) ==
    IF \/ ~tbl.exists
       \/ \E i \in 1..Len(fields) : ~SqlName(fields[i]) \/ ColumnName(fields[i]) \notin Columns(tbl)
    THEN "OperationalError" ELSE NoError

\* Binding these values as parameters.
BindError(values) ==
    IF \E i \in 1..Len(values) : values[i] = Unbindable THEN "ProgrammingError" ELSE NoError

\* Rows of tbl matching WHERE {k1}=? AND ... AND is_current=1 (NULL equals nothing).
CurrentIds(tbl, key_fields, key_values) ==
    {id \in 1..Len(tbl.rows) :
        /\ tbl.rows[id].is_current = 1
        /\ \A i \in 1..Len(key_fields) :
              /\ key_values[i] # None
              /\ tbl.rows[id].vals[ColumnName(key_fields[i])] = Stored(key_values[i])}

Max(S) == CHOOSE x \in S : \A y \in S : y <= x

\* A lookup that takes the current row with the smallest id.
SelectCurrentOldest(tbl, key_fields, key_values) ==
    LET ids == CurrentIds(tbl, key_fields, key_values)
    IN  IF ids = {} THEN 0 ELSE CHOOSE x \in ids : \A y \in ids : x <= y

\* A lookup that never finds the current row.
SelectCurrentFindsNone(tbl, key_fields, key_values) == 0

\* SELECT id, row_hash ... ORDER BY id DESC LIMIT 1: the id found, 0 for no row.
SelectCurrent(tbl, key_fields, key_values) ==
    LET ids == CurrentIds(tbl, key_fields, key_values)
    IN  IF ids = {} THEN 0 ELSE Max(ids)

\* A closing UPDATE that sets valid_to and forgets is_current.
CloseRowStaysCurrent(tbl, id, now) ==
    [tbl EXCEPT !.rows[id].valid_to = now]

\* A closing UPDATE without its WHERE clause: it closes every current row.
CloseRowOfEveryKey(tbl, id, now) ==
    [tbl EXCEPT !.rows = [n \in 1..Len(tbl.rows) |->
                            IF tbl.rows[n].is_current = 1
                            THEN [tbl.rows[n] EXCEPT !.valid_to = now, !.is_current = 0]
                            ELSE tbl.rows[n]]]

\* A closing UPDATE that also restamps valid_from.
CloseRowRestampsValidFrom(tbl, id, now) ==
    [tbl EXCEPT !.rows[id].valid_to = now, !.rows[id].is_current = 0,
                !.rows[id].valid_from = now + 1]

\* UPDATE {table} SET valid_to=?, is_current=0 WHERE id=?
CloseRow(tbl, id, now) ==
    [tbl EXCEPT !.rows[id].valid_to = now, !.rows[id].is_current = 0]

\* An INSERT that stamps the new version with the sentinel as valid_from.
NewRowFromSentinel(tbl, columns, values, now, row_hash) ==
    [vals |-> [c \in Columns(tbl) |->
                 IF \E i \in 1..Len(columns) : ColumnName(columns[i]) = c
                 THEN Stored(values[CHOOSE i \in 1..Len(columns) : ColumnName(columns[i]) = c])
                 ELSE None],
     valid_from |-> Sentinel, valid_to |-> Sentinel, is_current |-> 1, row_hash |-> row_hash]

\* The row INSERT builds: the named columns get the bound values, the
\* others NULL.
NewRow(tbl, columns, values, now, row_hash) ==
    [vals |-> [c \in Columns(tbl) |->
                 IF \E i \in 1..Len(columns) : ColumnName(columns[i]) = c
                 THEN Stored(values[CHOOSE i \in 1..Len(columns) : ColumnName(columns[i]) = c])
                 ELSE None],
     valid_from |-> now, valid_to |-> Sentinel, is_current |-> 1, row_hash |-> row_hash]

\* NOT NULL on the key columns.
ConstraintError(tbl, row) ==
    IF \E c \in Range(tbl.keys) : row.vals[c] = None THEN "IntegrityError" ELSE NoError

InsertRow(tbl, row) == [tbl EXCEPT !.rows = Append(@, row)]

----------------------------------------------------------------------------
(* Callers and their inputs *)

Threads == {1, 2}

\* The threads that call into the store under a workload.
ThreadsOf(w) == IF w = "concurrent" THEN Threads ELSE {1}

Workloads == {"concurrent", "versions", "content", "schema", "history", "search", "tiebreak", "fields", "frame"}

Rec(k, a) == <<<<K, k>>, <<A, a>>>>

Rec2(k, a, b) == <<<<K, k>>, <<A, a>>, <<B, b>>>>

\* The same fields as Rec2 in the opposite order.
Rec2Reversed(k, a, b) == <<<<B, b>>, <<A, a>>, <<K, k>>>>

\* attribute_fields left at its default, None.
Omitted == <<<<None>>>>

\* Names outside the identifier grammar.
BadTable == <<"t", " ", "b">>

BadKey == <<"k", " ", "y">>

Empty == <<>>

\* Records offered to upsert_scd2.
RecordPool(w) ==
    CASE w = "concurrent" -> {Rec("k1", "x"), Rec("k1", "y"), <<<<A, "x">>>>}
      [] w = "versions"   -> {Rec2("k1", "x", ""), Rec2("k1", "y", ""), Rec2("k2", "x", None)}
      [] w = "content"    -> {Rec2("k1", "x", ""), Rec2("k1", "", "x"), Rec2("k1", None, ""),
                              Rec2("k2", IntOne, ""), <<<<A, "x">>, <<B, "">>>>,
                              Rec2(None, "x", ""), Rec2(Unbindable, "x", "")}
      [] w = "schema"     -> {Rec("k1", "x"), Rec("k1", "y")}
      [] w = "history"    -> {Rec("k1", "x"), Rec("k1", "y")}
      [] w = "tiebreak"   -> {Rec("k1", "y"), Rec("k1", "z")}
      [] w = "fields"     -> {Rec2Reversed("k1", "x", "y"), Rec("k1", "x")}
      [] w = "frame"      -> {Rec("k1", "y"), Rec("k2", "y")}

TablePool(w) ==
    CASE w = "schema" -> {T, BadTable}
      [] w = "frame"  -> {T, U}
      [] OTHER        -> {T}

KeyFieldsPool(w) == IF w = "schema" THEN {<<K>>, <<BadKey>>} ELSE {<<K>>}

\* attribute_fields as passed: a list of names, the empty list, or Omitted.
AttributeFieldsPool(w) ==
    CASE w \in {"versions", "content"} -> {<<A, B>>}
      [] w = "schema"  -> {<<A>>, <<Empty>>}
      [] w = "fields"  -> {Omitted, <<>>, <<B>>}
      [] OTHER         -> {<<A>>}

\* Batches of 1..MaxBatch records (and the empty batch). The version-history
\* run-history, field-selection and frame workloads offer each record at most
\* once per batch; the other workloads also offer batches that repeat a record.
Batches(w) ==
    LET all == UNION {[1..n -> RecordPool(w)] : n \in 0..MaxBatch}
    IN  IF w \in {"versions", "history", "fields", "frame"} THEN {b \in all : NoDup(b)} ELSE all

\* details of log_history: None, a str, a mapping json can dump, one it cannot.
DictOk == "<dict>"

DictBad == "<dict of object>"

\* The concurrent workload also passes a list, which is neither a mapping
\* nor a value sqlite3 can bind.
DetailsPool(w) ==
    CASE w = "history"    -> {None, DictOk}
      [] w = "fields"     -> {DictOk}
      [] w = "frame"      -> {DictOk, Unbindable}
      [] w = "concurrent" -> {None, DictOk, DictBad, Unbindable}
      [] OTHER            -> {None, DictOk, DictBad}

\* json.dumps(details, ensure_ascii=False)
JsonDumps(details) == "{\"n\": 1}"

JsonDumpsNeverRaises(details) == FALSE

\* json.dumps raises TypeError on a mapping holding a value it cannot
\* serialize.
JsonDumpsRaises(details) == details = DictBad

\* limit of fetch_history: below, at and above the number of rows, and negative.
LimitPool(w) == IF w = "history" THEN {-1, 0, 1, 3} ELSE {1}

\* The number of calls a workload makes: the history workload logs twice
\* before it fetches.
CallBudget(w) == IF w = "history" THEN MaxCalls + 1 ELSE MaxCalls

----------------------------------------------------------------------------
(* State *)

NoFrame ==
    [op |-> "none", table |-> <<>>, records |-> <<>>, key_fields |-> <<>>,
     attrs_arg |-> <<>>, attribute_fields |-> <<>>, details |-> None, limit |-> 0,
     now |-> 0, i |-> 0, current |-> 0, row_hash |-> Sha256Hex(""), inserted |-> 0,
     err |-> NoError, fetched |-> <<>>, lastrowid |-> 0,
     atCall |-> <<>>, atBatch |-> NoTable, created |-> FALSE,
     allNew |-> FALSE, rep |-> FALSE, repValue |-> 0, repRows |-> 0, repAllNew |-> FALSE]

NoResult == [op |-> "none", status |-> "none", value |-> 0, err |-> NoError, rows |-> <<>>]

\* No search_address call has been made.
NoSearch ==
    [pc |-> "idle", address |-> <<>>, api_key |-> <<>>, size |-> 0, search_option |-> None,
     filter_option |-> FALSE, primary_category |-> "none", requests |-> <<>>,
     statuses |-> <<>>, filtered_as |-> "none", outcome |-> "none"]

\* The names under which a table can exist.
AllTables == {T, U}

\* The state after DBAdapter.__init__: _configure and ensure_history_schema
\* have run, ingestion_history exists and is empty, no entity table exists.
EmptyDb == [tables |-> [n \in AllTables |-> NoTable], history |-> <<>>]

\* A database file that already holds two current rows for key k1, the
\* older with attribute x, the newer with attribute y (DBAdapter opens
\* whatever file db_path names).
TwoCurrentDb ==
    LET created == EnsureDDL(NoTable, T, <<K>>, <<A>>)[2]
        version(a) == NewRow(created, <<K, A>>, <<"k1", a>>, 0,
                             ComputeHash(<<<<K, "k1">>, <<A, a>>>>, <<A>>))
    IN  [EmptyDb EXCEPT !.tables[T] = InsertRow(InsertRow(created, version("x")), version("y"))]

\* job_name: every caller thread logs under its own job name.
JobName(t) == t

\* A database file left by an earlier run that upserted k1 and k2 into
\* table t and k1 into table u, and logged one event.
FilledDb ==
    LET created(table) == EnsureDDL(NoTable, table, <<K>>, <<A>>)[2]
        version(k) == NewRow(created(T), <<K, A>>, <<k, "x">>, 0, ComputeHash(Rec(k, "x"), <<A>>))
    IN  [tables |-> [n \in AllTables |->
                        IF n = T THEN InsertRow(InsertRow(created(T), version("k1")), version("k2"))
                        ELSE InsertRow(created(n), version("k1"))],
         history |-> <<[job_name |-> JobName(1), event_type |-> "start", status |-> "ok",
                        started_at |-> 0, details |-> DictOk]>>]

\* The database __init__ finds under a workload.
DbAtInit(w) ==
    CASE w = "tiebreak" -> TwoCurrentDb
      [] w = "frame"    -> FilledDb
      [] OTHER          -> EmptyDb

InitWith(w) ==
    /\ workload = w
    /\ pc = [t \in Threads |-> "idle"]
    /\ frame = [t \in Threads |-> NoFrame]
    /\ result = [t \in Threads |-> NoResult]
    /\ lockOwner = 0
    /\ db = DbAtInit(w)
    /\ saved = DbAtInit(w)
    /\ inTxn = FALSE
    /\ clock = 0
    /\ calls = 0
    /\ search = NoSearch

Init == InitWith("concurrent")

----------------------------------------------------------------------------
(* sqlite3.Connection as a context manager, and threading.RLock *)

\* Connection.__exit__ without an exception: commit
Commit ==
    /\ saved' = db
    /\ db' = db
    /\ inTxn' = FALSE

\* Connection.__exit__ with an exception: rollback
Rollback ==
    /\ db' = saved
    /\ saved' = saved
    /\ inTxn' = FALSE

\* End of "with self._conn:".
ExitConn(err) == IF err = NoError THEN Commit ELSE Rollback

\* A statement that writes rows: sqlite3 opens a transaction first when
\* none is open, the change stays uncommitted.
WriteRows(newdb) ==
    /\ db' = newdb
    /\ saved' = saved
    /\ inTxn' = TRUE

\* A DDL statement: no implicit BEGIN; outside a transaction it is committed
\* at once, inside one it belongs to it.
WriteSchema(newdb) ==
    /\ db' = newdb
    /\ saved' = IF inTxn THEN saved ELSE newdb
    /\ inTxn' = inTxn

\* self._lock.acquire() by thread t (re-entrant).
CanAcquire(t) == lockOwner \in {0, t}

\* The table's number of rows as the connection sees it.
NRows(table) == IF table \in AllTables THEN Len(db.tables[table].rows) ELSE 0

\* Thread t enters a public method with frame f.
BeginCall(t, f) ==
    /\ pc[t] = "idle"
    /\ t \in ThreadsOf(workload)
    /\ calls < CallBudget(workload)
    /\ calls' = calls + 1
    /\ frame' = [frame EXCEPT ![t] = f]

\* The method returns value, or raises err, to its caller.
Return(t, value, err, rows) ==
    /\ pc' = [pc EXCEPT ![t] = "idle"]
    /\ result' = [result EXCEPT ![t] =
                    [op |-> frame'[t].op,
                     status |-> IF err = NoError THEN "ok" ELSE "raised",
                     value |-> value, err |-> err, rows |-> rows]]

\* _utcnow_iso(): the wall clock never runs backwards; any amount of time
\* may have passed since it was last read.
Times == clock..MaxClock

----------------------------------------------------------------------------
(* ensure_history_schema: "with self._conn:" only, self._lock is not taken *)

CallEnsureHistorySchema(t) ==
    /\ BeginCall(t, [NoFrame EXCEPT !.op = "ensure_history_schema"])
    /\ pc' = [pc EXCEPT ![t] = "ehs_exec"]
    /\ UNCHANGED <<workload, search, result, lockOwner, db, saved, inTxn, clock>>

\* CREATE TABLE IF NOT EXISTS ingestion_history: the table exists since
\* __init__, the statement changes nothing.
EhsExec(t) ==
    /\ pc[t] = "ehs_exec"
    /\ WriteSchema(db)
    /\ pc' = [pc EXCEPT ![t] = "ehs_exit"]
    /\ UNCHANGED <<workload, search, frame, result, lockOwner, clock, calls>>

EhsExit(t) ==
    /\ pc[t] = "ehs_exit"
    /\ ExitConn(NoError)
    /\ UNCHANGED frame
    /\ Return(t, 0, NoError, <<>>)
    /\ UNCHANGED <<workload, search, lockOwner, clock, calls>>

----------------------------------------------------------------------------
(* log_history *)

\* Lines 69-71: a mapping is serialized before the lock is taken;
\* json.dumps raises TypeError on a value it cannot serialize.
CallLogHistory(t, details) ==
    /\ BeginCall(t, [NoFrame EXCEPT !.op = "log_history",
                        !.details = IF details = DictOk THEN JsonDumps(details) ELSE details])
    /\ IF JsonDumpsRaises(details)
       THEN Return(t, 0, "TypeError", <<>>)
       ELSE /\ pc' = [pc EXCEPT ![t] = "log_lock"]
            /\ UNCHANGED result
    /\ UNCHANGED <<workload, search, lockOwner, db, saved, inTxn, clock>>

LogLock(t) ==
    /\ pc[t] = "log_lock"
    /\ CanAcquire(t)
    /\ lockOwner' = t
    /\ pc' = [pc EXCEPT ![t] = "log_insert"]
    /\ UNCHANGED <<workload, search, frame, result, db, saved, inTxn, clock, calls>>

LastInsertRowidBeforeInsert(history) == Len(history) - 1

\* cursor.lastrowid after the INSERT: the AUTOINCREMENT id of the row just
\* appended to history (ids are the positions: no history row is ever
\* deleted or rolled back).
LastInsertRowid(history) == Len(history)

\* INSERT INTO ingestion_history ...; started_at defaults to _utcnow_iso().
LogInsert(t) ==
    /\ pc[t] = "log_insert"
    /\ \E now \in Times :
        LET history == Append(db.history,
                              [job_name |-> JobName(t), event_type |-> "start", status |-> "ok",
                               started_at |-> now, details |-> frame[t].details])
        IN  /\ clock' = now
            /\ IF BindError(<<frame[t].details>>) # NoError
               THEN /\ WriteRows(db)
                    /\ frame' = [frame EXCEPT ![t].err = BindError(<<frame[t].details>>)]
               ELSE /\ WriteRows([db EXCEPT !.history = history])
                    /\ frame' = [frame EXCEPT ![t].lastrowid = LastInsertRowid(history)]
    /\ pc' = [pc EXCEPT ![t] = "log_exit"]
    /\ UNCHANGED <<workload, search, result, lockOwner, calls>>

LogExit(t) ==
    /\ pc[t] = "log_exit"
    /\ ExitConn(frame[t].err)
    /\ lockOwner' = 0
    /\ UNCHANGED frame
    /\ Return(t, IF frame[t].err = NoError THEN frame[t].lastrowid ELSE 0, frame[t].err, <<>>)
    /\ UNCHANGED <<workload, search, clock, calls>>

----------------------------------------------------------------------------
(* fetch_history *)

CallFetchHistory(t, limit) ==
    /\ BeginCall(t, [NoFrame EXCEPT !.op = "fetch_history", !.limit = limit])
    /\ pc' = [pc EXCEPT ![t] = "fh_lock"]
    /\ UNCHANGED <<workload, search, result, lockOwner, db, saved, inTxn, clock>>

FhLock(t) ==
    /\ pc[t] = "fh_lock"
    /\ CanAcquire(t)
    /\ lockOwner' = t
    /\ pc' = [pc EXCEPT ![t] = "fh_select"]
    /\ UNCHANGED <<workload, search, frame, result, db, saved, inTxn, clock, calls>>

RecentHistoryOldestFirst(history, limit) ==
    [j \in 1..(IF limit < 0 THEN Len(history) ELSE Min(limit, Len(history))) |->
        [id |-> j, row |-> history[j]]]

\* SELECT * FROM ingestion_history ORDER BY id DESC LIMIT ?: the rows with
\* their ids, largest id first. SQLite reads a negative LIMIT as no limit.
RecentHistory(history, limit) ==
    [j \in 1..(IF limit < 0 THEN Len(history) ELSE Min(limit, Len(history))) |->
        [id |-> Len(history) + 1 - j, row |-> history[Len(history) + 1 - j]]]

FhSelect(t) ==
    /\ pc[t] = "fh_select"
    /\ frame' = [frame EXCEPT ![t].fetched = RecentHistory(db.history, frame[t].limit)]
    /\ pc' = [pc EXCEPT ![t] = "fh_exit"]
    /\ UNCHANGED <<workload, search, result, lockOwner, db, saved, inTxn, clock, calls>>

FhExit(t) ==
    /\ pc[t] = "fh_exit"
    /\ ExitConn(NoError)
    /\ lockOwner' = 0
    /\ UNCHANGED frame
    /\ Return(t, 0, NoError, frame[t].fetched)
    /\ UNCHANGED <<workload, search, clock, calls>>

----------------------------------------------------------------------------
(* ensure_scd2_table, called directly or from upsert_scd2 (line 157) *)

CallEnsureScd2Table(t, table, key_fields, attribute_fields) ==
    /\ BeginCall(t, [NoFrame EXCEPT !.op = "ensure_scd2_table", !.table = table,
                        !.key_fields = key_fields, !.attrs_arg = attribute_fields,
                        !.attribute_fields = attribute_fields, !.atCall = db.tables])
    /\ pc' = [pc EXCEPT ![t] = "est_lock"]
    /\ UNCHANGED <<workload, search, result, lockOwner, db, saved, inTxn, clock>>

EstLock(t) ==
    /\ pc[t] = "est_lock"
    /\ CanAcquire(t)
    /\ lockOwner' = t
    /\ pc' = [pc EXCEPT ![t] = "est_ddl"]
    /\ UNCHANGED <<workload, search, frame, result, db, saved, inTxn, clock, calls>>

\* Lines 110-129: CREATE TABLE, CREATE INDEX, CREATE INDEX.
EstDDL(t) ==
    /\ pc[t] = "est_ddl"
    /\ LET f == frame[t]
           out == IF f.table \in AllTables
                  THEN EnsureDDL(db.tables[f.table], f.table, f.key_fields, f.attribute_fields)
                  ELSE EnsureDDL(NoTable, f.table, f.key_fields, f.attribute_fields)
       IN  /\ WriteSchema(IF f.table \in AllTables
                          THEN [db EXCEPT !.tables[f.table] = out[2]] ELSE db)
           /\ frame' = [frame EXCEPT ![t].err = out[1],
                                      ![t].created = out[2].exists /\ f.table \in AllTables
                                                     /\ ~db.tables[f.table].exists]
    /\ pc' = [pc EXCEPT ![t] = "est_exit"]
    /\ UNCHANGED <<workload, search, result, lockOwner, clock, calls>>

\* End of the with-block of ensure_scd2_table; an exception passes through
\* upsert_scd2 to its caller.
EstExit(t) ==
    /\ pc[t] = "est_exit"
    /\ ExitConn(frame[t].err)
    /\ lockOwner' = 0
    /\ UNCHANGED frame
    /\ IF frame[t].op = "upsert_scd2" /\ frame[t].err = NoError
       THEN /\ pc' = [pc EXCEPT ![t] = "up_now"]
            /\ UNCHANGED result
       ELSE Return(t, 0, frame[t].err, <<>>)
    /\ UNCHANGED <<workload, search, clock, calls>>

----------------------------------------------------------------------------
(* upsert_scd2 *)

\* [row[field] for field in key_fields]: KeyError on a missing field.
KeyValues(record, key_fields) == [i \in 1..Len(key_fields) |-> Get(record, key_fields[i])]

MissingKey(record, key_fields) == \E i \in 1..Len(key_fields) : ~Has(record, key_fields[i])

\* Line 154: list(attribute_fields or [])
GivenFields(attribute_fields) ==
    IF attribute_fields = Omitted THEN <<>> ELSE attribute_fields

\* An inference that reads the last record of the batch.
ResolveAttributeFieldsFromLast(records, key_fields, attribute_fields) ==
    IF GivenFields(attribute_fields) # <<>> THEN GivenFields(attribute_fields)
    ELSE Without(Keys(records[Len(records)]), Range(key_fields))

\* Lines 154-156: the attribute fields the call works with.
ResolveAttributeFields(records, key_fields, attribute_fields) ==
    IF GivenFields(attribute_fields) # <<>> THEN GivenFields(attribute_fields)
    ELSE Without(Keys(records[1]), Range(key_fields))

\* Whether every record of the batch would start a new version in tbl: it
\* has its key fields and its key has no current row with the record's hash.
AllNew(tbl, records, key_fields, fields) ==
    \A i \in 1..Len(records) :
        /\ ~MissingKey(records[i], key_fields)
        /\ LET current == SelectCurrent(tbl, key_fields, KeyValues(records[i], key_fields))
           IN  current = 0 \/ tbl.rows[current].row_hash # ComputeHash(records[i], fields)

\* Whether the call repeats the call the thread finished last.
Repeats(t, table, records, key_fields, attribute_fields) ==
    /\ frame[t].op = "upsert_scd2" /\ result[t].status = "ok"
    /\ frame[t].table = table /\ frame[t].records = records
    /\ frame[t].key_fields = key_fields /\ frame[t].attrs_arg = attribute_fields

NoRowsNever(records) == FALSE

\* Lines 151-153: rows = list(records); "if not rows".
NoRows(records) == records = <<>>

\* Lines 151-157, up to the call of ensure_scd2_table.
CallUpsertScd2(t, table, records, key_fields, attribute_fields) ==
    /\ BeginCall(t, [NoFrame EXCEPT !.op = "upsert_scd2", !.table = table,
                        !.records = records, !.key_fields = key_fields,
                        !.attrs_arg = attribute_fields,
                        !.attribute_fields =
                            IF records = <<>> THEN <<>>
                            ELSE ResolveAttributeFields(records, key_fields, attribute_fields),
                        !.atCall = db.tables,
                        !.allNew =
                            /\ records # <<>>
                            /\ table \in AllTables
                            /\ AllNew(db.tables[table], records, key_fields,
                                      ResolveAttributeFields(records, key_fields, attribute_fields)),
                        !.rep = Repeats(t, table, records, key_fields, attribute_fields),
                        !.repValue = result[t].value,
                        !.repRows = NRows(table),
                        !.repAllNew = frame[t].allNew])
    /\ IF NoRows(records)
       THEN Return(t, 0, NoError, <<>>)
       ELSE /\ pc' = [pc EXCEPT ![t] = "est_lock"]
            /\ UNCHANGED result
    /\ UNCHANGED <<workload, search, lockOwner, db, saved, inTxn, clock>>

\* Lines 159-160: inserted = 0; now = _utcnow_iso()
UpNow(t) ==
    /\ pc[t] = "up_now"
    /\ \E now \in Times :
        /\ clock' = now
        /\ frame' = [frame EXCEPT ![t].inserted = 0, ![t].now = now]
    /\ pc' = [pc EXCEPT ![t] = "up_lock"]
    /\ UNCHANGED <<workload, search, result, lockOwner, db, saved, inTxn, calls>>

\* Line 161: with self._lock, self._conn
UpLock(t) ==
    /\ pc[t] = "up_lock"
    /\ CanAcquire(t)
    /\ lockOwner' = t
    /\ frame' = [frame EXCEPT ![t].i = 1, ![t].atBatch = db.tables[frame[t].table]]
    /\ pc' = [pc EXCEPT ![t] = "up_select"]
    /\ UNCHANGED <<workload, search, result, db, saved, inTxn, clock, calls>>

\* Lines 162-175: the loop head, the hash, the key values and the SELECT
\* of the current row.
UpSelect(t) ==
    /\ pc[t] = "up_select"
    /\ LET f == frame[t]
           tbl == db.tables[f.table]
       IN  IF f.i > Len(f.records)
           THEN /\ pc' = [pc EXCEPT ![t] = "up_exit"]
                /\ UNCHANGED frame
           ELSE LET row == f.records[f.i]
                    row_hash == ComputeHash(row, f.attribute_fields)
                    key_values == KeyValues(row, f.key_fields)
                    err == IF MissingKey(row, f.key_fields) THEN "KeyError"
                           ELSE IF PrepareError(tbl, f.key_fields) # NoError
                           THEN PrepareError(tbl, f.key_fields)
                           ELSE BindError(key_values)
                    current == SelectCurrent(tbl, f.key_fields, key_values)
                IN  IF err # NoError
                    THEN /\ frame' = [frame EXCEPT ![t].err = err, ![t].row_hash = row_hash]
                         /\ pc' = [pc EXCEPT ![t] = "up_exit"]
                    ELSE IF current # 0 /\ tbl.rows[current].row_hash = row_hash
                    THEN /\ frame' = [frame EXCEPT ![t].i = f.i + 1, ![t].row_hash = row_hash,
                                                   ![t].current = current]
                         /\ pc' = pc
                    ELSE /\ frame' = [frame EXCEPT ![t].row_hash = row_hash,
                                                   ![t].current = current]
                         /\ pc' = [pc EXCEPT ![t] = IF current # 0 THEN "up_update"
                                                    ELSE "up_insert"]
    /\ UNCHANGED <<workload, search, result, lockOwner, db, saved, inTxn, clock, calls>>

\* Lines 176-184: close the current row.
UpUpdate(t) ==
    /\ pc[t] = "up_update"
    /\ LET f == frame[t]
       IN  WriteRows([db EXCEPT !.tables[f.table] = CloseRow(@, f.current, f.now)])
    /\ pc' = [pc EXCEPT ![t] = "up_insert"]
    /\ UNCHANGED <<workload, search, frame, result, lockOwner, clock, calls>>

CountNothing(inserted) == inserted

\* Line 194: inserted += 1
CountInserted(inserted) == inserted + 1

\* Lines 185-194: insert the new version and count it.
UpInsert(t) ==
    /\ pc[t] = "up_insert"
    /\ LET f == frame[t]
           tbl == db.tables[f.table]
           columns == f.key_fields \o f.attribute_fields
           values == [i \in 1..Len(columns) |-> Get(f.records[f.i], columns[i])]
           perr == PrepareError(tbl, columns)
           row == NewRow(tbl, columns, values, f.now, f.row_hash)
           err == IF BindError(values) # NoError THEN BindError(values)
                  ELSE ConstraintError(tbl, row)
       IN  IF perr # NoError
           THEN /\ UNCHANGED <<db, saved, inTxn>>
                /\ frame' = [frame EXCEPT ![t].err = perr]
                /\ pc' = [pc EXCEPT ![t] = "up_exit"]
           ELSE IF err # NoError
           THEN /\ WriteRows(db)
                /\ frame' = [frame EXCEPT ![t].err = err]
                /\ pc' = [pc EXCEPT ![t] = "up_exit"]
           ELSE /\ WriteRows([db EXCEPT !.tables[f.table] = InsertRow(@, row)])
                /\ frame' = [frame EXCEPT ![t].inserted = CountInserted(f.inserted), ![t].i = f.i + 1]
                /\ pc' = [pc EXCEPT ![t] = "up_select"]
    /\ UNCHANGED <<workload, search, result, lockOwner, clock, calls>>

\* End of the with-block of line 161, and line 195.
UpExit(t) ==
    /\ pc[t] = "up_exit"
    /\ ExitConn(frame[t].err)
    /\ lockOwner' = 0
    /\ UNCHANGED frame
    /\ Return(t, IF frame[t].err = NoError THEN frame[t].inserted ELSE 0, frame[t].err, <<>>)
    /\ UNCHANGED <<workload, search, clock, calls>>

----------------------------------------------------------------------------

Next ==
    \/ \E t \in Threads :
        \/ CallEnsureHistorySchema(t)
        \/ EhsExec(t)
        \/ EhsExit(t)
        \/ \E details \in DetailsPool(workload) : CallLogHistory(t, details)
        \/ LogLock(t)
        \/ LogInsert(t)
        \/ LogExit(t)
        \/ \E limit \in LimitPool(workload) : CallFetchHistory(t, limit)
        \/ FhLock(t)
        \/ FhSelect(t)
        \/ FhExit(t)
        \/ \E table \in TablePool(workload), key_fields \in KeyFieldsPool(workload),
              attribute_fields \in AttributeFieldsPool(workload) \ {Omitted} :
              CallEnsureScd2Table(t, table, key_fields, attribute_fields)
        \/ EstLock(t)
        \/ EstDDL(t)
        \/ EstExit(t)
        \/ \E table \in TablePool(workload), records \in Batches(workload),
              key_fields \in KeyFieldsPool(workload),
              attribute_fields \in AttributeFieldsPool(workload) :
              CallUpsertScd2(t, table, records, key_fields, attribute_fields)
        \/ UpNow(t)
        \/ UpLock(t)
        \/ UpSelect(t)
        \/ UpUpdate(t)
        \/ UpInsert(t)
        \/ UpExit(t)

Spec == Init /\ [][Next]_vars

\* One caller; versions of two keys.
InitVersions == InitWith("versions")

SpecVersions == InitVersions /\ [][Next]_vars

\* One caller; records with two attribute fields and with unusable keys.
InitContent == InitWith("content")

SpecContent == InitContent /\ [][Next]_vars

\* One caller; table and field names inside and outside the identifier grammar.
InitSchema == InitWith("schema")

SpecSchema == InitSchema /\ [][Next]_vars

\* One caller; events logged and fetched with limits around the row count.
InitHistory == InitWith("history")

SpecHistory == InitHistory /\ [][Next]_vars

\* One caller on a database that holds two current rows for one key.
InitTieBreak == InitWith("tiebreak")

SpecTieBreak == InitTieBreak /\ [][Next]_vars

\* One caller whose upserts pass attribute_fields, pass it empty or omit it.
InitFields == InitWith("fields")

SpecFields == InitFields /\ [][Next]_vars

\* One caller on a database whose two entity tables and history hold rows.
InitFrame == InitWith("frame")

SpecFrame == InitFrame /\ [][Next]_vars

----------------------------------------------------------------------------
(* src/clients/vworld_client.py: search_address *)

\* An address is a sequence of characters; these stand for the classes of
\* characters the code tells apart: a digit, white space, the syllables
\* ro, gil, beon and dong, and any other character.
Digit == "0"

Space == " "

Ro == "ro"

Gil == "gil"

Beon == "beon"

Dong == "dong"

Letter == "x"

\* re.search(r"\d+\s*(?:ro|gil|beongil)", address)
NumberThenRoad(address) ==
    \E i \in 1..Len(address) : \E j \in (i + 1)..Len(address) :
        /\ address[i] = Digit
        /\ \A k \in (i + 1)..(j - 1) : address[k] = Space
        /\ \/ address[j] \in {Ro, Gil}
           \/ address[j] = Beon /\ j + 1 <= Len(address) /\ address[j + 1] = Gil

\* re.search(r"[^\d\s]+(?:ro|gil)\s*\d", address)
RoadThenNumber(address) ==
    \E i \in 2..Len(address) : \E j \in (i + 1)..Len(address) :
        /\ address[i - 1] \notin {Digit, Space}
        /\ address[i] \in {Ro, Gil}
        /\ \A k \in (i + 1)..(j - 1) : address[k] = Space
        /\ address[j] = Digit

\* Lines 414-417.
RoadHint(address) == NumberThenRoad(address) \/ RoadThenNumber(address)

\* "not address or not address.strip()"
Blank(text) == \A i \in 1..Len(text) : text[i] = Space

\* str(search_option).upper()
Upper(text) ==
    CASE text = "road"   -> "ROAD"
      [] text = "parcel" -> "PARCEL"
      [] OTHER           -> text

\* Lines 419-423: the category of the first request.
RequestedCategory(address, search_option) ==
    LET requested == IF search_option \in {None, ""} THEN "PARCEL" ELSE Upper(search_option)
    IN  IF RoadHint(address) THEN "ROAD"
        ELSE IF requested \notin {"ROAD", "PARCEL"} THEN "PARCEL"
        ELSE requested

\* Line 429.
FallbackCategory(primary_category) == IF primary_category = "ROAD" THEN "PARCEL" ELSE "ROAD"

\* Lines 378-383: the argument checks on address, api_key and size.
ArgumentError(address, api_key, size) ==
    IF Blank(address) \/ Blank(api_key) \/ size < 1 \/ size > 1000
    THEN "ValueError" ELSE NoError

AddressPool ==
    {<<Letter, Ro, Space, Digit>>, <<Letter, Dong, Space, Digit>>, <<Digit, Gil>>,
     <<Digit, Space, Beon, Gil>>, <<Ro, Space, Digit>>, <<Letter, Ro>>,
     <<Space, Space>>, <<>>}

ApiKeyPool == {<<Letter>>, <<Space>>}

SizePool == {0, 10, 1001}

SearchOptionPool == {"PARCEL", "ROAD", "road", "BOTH", "", None}

\* What the Search API answers: a status, or nothing the helper can read
\* (a transport failure, a body that is not JSON or has no response block).
NoResponse == "<no response>"

ResponsePool == {"OK", "NOT_FOUND", "ERROR", NoResponse}

\* search_address up to line 423: arguments checked, category chosen.
CallSearchAddress(address, api_key, size, search_option, filter_option) ==
    /\ workload = "search"
    /\ search.pc = "idle"
    /\ LET err == ArgumentError(address, api_key, size)
       IN  search' = [NoSearch EXCEPT
                        !.address = address, !.api_key = api_key, !.size = size,
                        !.search_option = search_option, !.filter_option = filter_option,
                        !.pc = IF err = NoError THEN "primary" ELSE "done",
                        !.outcome = IF err = NoError THEN "none" ELSE err,
                        !.primary_category =
                            IF err = NoError THEN RequestedCategory(address, search_option)
                            ELSE "none"]
    /\ UNCHANGED <<workload, pc, frame, result, lockOwner, db, saved, inTxn, clock, calls>>

\* _perform_address_search_request(query_params, category, timeout) with
\* the API's answer: it returns on OK and NOT_FOUND, raises VWorldAPIError
\* otherwise. next is where search_address goes on after NOT_FOUND.
PerformAddressSearchRequest(category, status, next) ==
    [search EXCEPT
        !.requests = Append(@, category),
        !.statuses = Append(@, status),
        !.primary_category = category,
        !.pc = CASE status = "OK" -> "filter"
                 [] status = "NOT_FOUND" -> next
                 [] OTHER -> "done",
        !.outcome = IF status \in {"OK", "NOT_FOUND"} THEN "none" ELSE "VWorldAPIError"]

\* Lines 425-426: the first request.
SearchPrimary(status) ==
    /\ search.pc = "primary"
    /\ search' = PerformAddressSearchRequest(search.primary_category, status, "fallback")
    /\ UNCHANGED <<workload, pc, frame, result, lockOwner, db, saved, inTxn, clock, calls>>

\* Lines 428-431: the request with the other category after NOT_FOUND.
SearchFallback(status) ==
    /\ search.pc = "fallback"
    /\ search' = PerformAddressSearchRequest(FallbackCategory(search.primary_category),
                                             status, "filter")
    /\ UNCHANGED <<workload, pc, frame, result, lockOwner, db, saved, inTxn, clock, calls>>

\* Lines 433-446: the items are filtered when asked for and the status is
\* OK; the response is returned.
SearchReturn ==
    /\ search.pc = "filter"
    /\ search' = [search EXCEPT
                    !.filtered_as =
                        IF search.filter_option /\ search.statuses[Len(search.statuses)] = "OK"
                        THEN (IF search.primary_category = "ROAD" THEN "road" ELSE "parcel")
                        ELSE "none",
                    !.pc = "done",
                    !.outcome = "returned"]
    /\ UNCHANGED <<workload, pc, frame, result, lockOwner, db, saved, inTxn, clock, calls>>

NextSearch ==
    \/ \E address \in AddressPool, api_key \in ApiKeyPool, size \in SizePool,
          search_option \in SearchOptionPool, filter_option \in BOOLEAN :
          CallSearchAddress(address, api_key, size, search_option, filter_option)
    \/ \E status \in ResponsePool : SearchPrimary(status)
    \/ \E status \in ResponsePool : SearchFallback(status)
    \/ SearchReturn

\* One call of search_address; the store is not used.
InitSearch == InitWith("search")

SpecSearch == InitSearch /\ [][NextSearch]_vars

----------------------------------------------------------------------------
(* Properties *)

\* The key tuple of a stored row.
KeyOf(tbl, id) == [i \in 1..Len(tbl.keys) |-> tbl.rows[id].vals[tbl.keys[i]]]

Ids(tbl) == 1..Len(tbl.rows)

IdsOfKey(tbl, key) == {id \in Ids(tbl) : KeyOf(tbl, id) = key}

InBatch(t) == pc[t] \in {"up_select", "up_update", "up_insert", "up_exit"}

\* Thread t takes a step.
Steps(t) == pc'[t] # pc[t] \/ frame'[t] # frame[t]

SingleCurrentIn(d) ==
    \A n \in AllTables : \A i, j \in Ids(d.tables[n]) :
        (/\ i # j
         /\ d.tables[n].rows[i].is_current = 1
         /\ d.tables[n].rows[j].is_current = 1)
        => KeyOf(d.tables[n], i) # KeyOf(d.tables[n], j)

\* C1: in every reachable state, through the connection and as committed,
\* each entity table holds at most one row with is_current=1 per key tuple.
C1_SingleCurrent == SingleCurrentIn(db) /\ SingleCurrentIn(saved)

\* C1 witness: one thread has finished an upsert, the other is about to leave
\* a batch that failed after it closed a row and inserted a version of a key
\* that now has three rows.
C1_Witness ==
    \E t, u \in Threads :
        /\ t # u
        /\ result[u].op = "upsert_scd2" /\ result[u].status = "ok" /\ pc[u] = "idle"
        /\ pc[t] = "up_exit" /\ frame[t].err = "KeyError" /\ frame[t].inserted >= 1
        /\ \E id \in Ids(db.tables[T]) :
              /\ db.tables[T].rows[id].is_current = 1
              /\ Cardinality(IdsOfKey(db.tables[T], KeyOf(db.tables[T], id))) = 3

\* C2: when an upsert call raises while it processes a record, the table's
\* rows after the call are those the batch started from.
C2_AtomicBatch ==
    [][\A t \in Threads :
         (pc[t] = "up_exit" /\ frame[t].err # NoError /\ pc'[t] = "idle")
         => db'.tables[frame[t].table].rows = frame[t].atBatch.rows]_vars

\* Positions at which a thread is inside "with self._conn:", about to
\* execute a statement, commit or roll back.
ConnPositions ==
    {"ehs_exec", "ehs_exit", "log_insert", "log_exit", "fh_select", "fh_exit",
     "est_ddl", "est_exit", "up_select", "up_update", "up_insert", "up_exit"}

\* Thread u is inside an upsert batch with uncommitted changes.
UpsertTxnOpen(u) == InBatch(u) /\ lockOwner = u /\ inTxn

\* C3: every operation holds the lock while it uses the connection, so no
\* thread executes, commits or rolls back on the connection while another
\* thread's upsert transaction is open.
C3_LockSerializesConnection ==
    [][\A t \in Threads :
         (pc[t] \in ConnPositions /\ Steps(t))
         => \A u \in Threads \ {t} : ~UpsertTxnOpen(u)]_vars

\* C8: when an upsert call that created its table raises while it processes
\* a record, the table is gone again after the call.
C8_SchemaRolledBack ==
    [][\A t \in Threads :
         (/\ pc[t] = "up_exit" /\ frame[t].err # NoError /\ pc'[t] = "idle"
          /\ frame[t].created)
         => ~db'.tables[frame[t].table].exists]_vars

FinishedUpsert(t) == pc[t] = "idle" /\ frame[t].op = "upsert_scd2" /\ result[t].op = "upsert_scd2"

\* The key tuples of the batch are pairwise distinct as stored.
DistinctKeys(records, key_fields) ==
    \A i, j \in 1..Len(records) :
        i # j => [n \in 1..Len(key_fields) |-> Stored(Get(records[i], key_fields[n]))]
                 # [n \in 1..Len(key_fields) |-> Stored(Get(records[j], key_fields[n]))]

\* C4 as claimed: for any batch of N records, the first upsert returns N and
\* the immediately repeated upsert of the same batch returns 0 and leaves
\* the number of rows unchanged.
C4_Idempotence ==
    \A t \in Threads :
        (FinishedUpsert(t) /\ frame[t].rep)
        => /\ result[t].status = "ok"
           /\ frame[t].repValue = Len(frame[t].records)
           /\ result[t].value = 0
           /\ NRows(frame[t].table) = frame[t].repRows

\* C4 amended: the same, for a batch whose key tuples are pairwise distinct
\* and none of whose records had the row_hash of its key's current row
\* before the first call.
C4_IdempotenceOfNewDistinctKeys ==
    \A t \in Threads :
        (/\ FinishedUpsert(t) /\ frame[t].rep
         /\ DistinctKeys(frame[t].records, frame[t].key_fields)
         /\ frame[t].repAllNew)
        => /\ result[t].status = "ok"
           /\ frame[t].repValue = Len(frame[t].records)
           /\ result[t].value = 0
           /\ NRows(frame[t].table) = frame[t].repRows

\* C4 witness: a batch of two new keys has been upserted twice.
C4_Witness ==
    \E t \in Threads :
        /\ FinishedUpsert(t) /\ frame[t].rep /\ frame[t].repAllNew
        /\ Len(frame[t].records) = 2
        /\ DistinctKeys(frame[t].records, frame[t].key_fields)
        /\ result[t].value = 0 /\ frame[t].repValue = 2

\* C5: the INSERT that follows the closing of a current row leaves that row
\* with is_current=0 and valid_to = now, and adds a row of the same key with
\* is_current=1, valid_from = the same now and valid_to = the sentinel; the
\* key has one row more.
C5_Supersession ==
    [][\A t \in Threads :
         (pc[t] = "up_insert" /\ frame[t].current # 0 /\ pc'[t] = "up_select")
         => LET f == frame[t]
                old == db.tables[f.table]
                new == db'.tables[f.table]
                n == Len(new.rows)
            IN  /\ new.rows[f.current].is_current = 0
                /\ new.rows[f.current].valid_to = f.now
                /\ new.rows[n].is_current = 1
                /\ new.rows[n].valid_from = f.now
                /\ new.rows[n].valid_to = Sentinel
                /\ new.rows[f.current].valid_to = new.rows[n].valid_from
                /\ KeyOf(new, n) = KeyOf(new, f.current)
                /\ Cardinality(IdsOfKey(new, KeyOf(new, n)))
                     = Cardinality(IdsOfKey(old, KeyOf(new, n))) + 1]_vars

\* C5 witness: a batch has just superseded a row: the row it found current
\* is closed at the batch's now and the newest row, of the same key, starts
\* at that now.
C5_Witness ==
    \E t \in Threads :
        /\ pc[t] = "up_select" /\ frame[t].current # 0 /\ frame[t].inserted >= 1
        /\ LET tbl == db.tables[frame[t].table]
           IN  /\ tbl.rows[frame[t].current].is_current = 0
               /\ tbl.rows[frame[t].current].valid_to = frame[t].now
               /\ tbl.rows[Len(tbl.rows)].valid_from = frame[t].now
               /\ tbl.rows[Len(tbl.rows)].is_current = 1
               /\ KeyOf(tbl, Len(tbl.rows)) = KeyOf(tbl, frame[t].current)

\* An attribute value with None read as the empty string.
Norm(value) == IF value = None THEN "" ELSE value

\* The record differs from the stored row in at least one attribute field.
AttrsDiffer(record, tbl, id, fields) ==
    \E i \in 1..Len(fields) :
        Norm(Stored(Get(record, fields[i]))) # Norm(tbl.rows[id].vals[ColumnName(fields[i])])

\* C6: a record whose key has a current row and whose attribute values
\* differ from that row's in some attribute field is not skipped: its
\* current row is closed next.
C6_ChangeDetected ==
    [][\A t \in Threads :
         (/\ pc[t] = "up_select" /\ Steps(t)
          /\ frame[t].i <= Len(frame[t].records)
          /\ ~MissingKey(frame[t].records[frame[t].i], frame[t].key_fields)
          /\ LET f == frame[t]
                 tbl == db.tables[f.table]
                 current == SelectCurrent(tbl, f.key_fields,
                                          KeyValues(f.records[f.i], f.key_fields))
             IN  /\ current # 0
                 /\ AttrsDiffer(f.records[f.i], tbl, current, f.attribute_fields))
         => pc'[t] = "up_update"]_vars

\* The attribute values of a stored row, in declared order, None as "".
NormAttrs(tbl, id) == [i \in 1..Len(tbl.attrs) |-> Norm(tbl.rows[id].vals[tbl.attrs[i]])]

\* C7: stored rows with identical attribute values (None read as the empty
\* string) carry the identical row_hash, whatever their keys.
C7_HashOfAttributesOnly ==
    \A n \in AllTables : \A i, j \in Ids(db.tables[n]) :
        NormAttrs(db.tables[n], i) = NormAttrs(db.tables[n], j)
        => db.tables[n].rows[i].row_hash = db.tables[n].rows[j].row_hash

\* C7 witness: two rows of different keys, one with "" and one with NULL in
\* an attribute, and the same hash.
C7_Witness ==
    \E i, j \in Ids(db.tables[T]) :
        /\ KeyOf(db.tables[T], i) # KeyOf(db.tables[T], j)
        /\ NormAttrs(db.tables[T], i) = NormAttrs(db.tables[T], j)
        /\ db.tables[T].rows[i].vals # db.tables[T].rows[j].vals
        /\ \E c \in Range(db.tables[T].attrs) :
              db.tables[T].rows[i].vals[c] = None /\ db.tables[T].rows[j].vals[c] = ""
        /\ db.tables[T].rows[i].row_hash = db.tables[T].rows[j].row_hash

\* A record without one of the key fields, or with a key value that cannot
\* be bound as text.
UnusableKey(record, key_fields) ==
    \/ MissingKey(record, key_fields)
    \/ \E i \in 1..Len(key_fields) : Get(record, key_fields[i]) = Unbindable

\* C9: an upsert whose batch holds a record with an unusable key fails with
\* UpsertError.
C9_UpsertError ==
    \A t \in Threads :
        (/\ FinishedUpsert(t)
         /\ \E i \in 1..Len(frame[t].records) :
               UnusableKey(frame[t].records[i], frame[t].key_fields))
        => result[t].status = "raised" /\ result[t].err = "UpsertError"

\* The names a call interpolates into its statements.
NamesOf(f) == {f.table} \cup Range(f.key_fields) \cup Range(f.attribute_fields)

\* C10: a call of ensure_scd2_table, or of upsert_scd2 with records, with a
\* name outside the identifier grammar fails with SchemaError and leaves
\* the schema as it was.
C10_NamesValidated ==
    \A t \in Threads :
        (/\ pc[t] = "idle"
         /\ result[t].op \in {"ensure_scd2_table", "upsert_scd2"}
         /\ frame[t].op = "upsert_scd2" => frame[t].records # <<>>
         /\ \E n \in NamesOf(frame[t]) : ~IsIdentifier(n))
        => /\ result[t].status = "raised" /\ result[t].err = "SchemaError"
           /\ db.tables = frame[t].atCall

----------------------------------------------------------------------------
(* History *)

\* What fetch_history hands back when it returns: the count most recent
\* events of the history, most recent first, each with its identifier.
MostRecentFirst(rows, history, count) ==
    /\ Len(rows) = count
    /\ \A j \in 1..Len(rows) :
          /\ rows[j].id = Len(history) + 1 - j
          /\ rows[j].row = history[rows[j].id]

\* Thread t returns from fetch_history in this step.
FetchReturns(t) == pc[t] = "fh_exit" /\ pc'[t] = "idle"

\* No step of a fetch_history call changes the history or an entity table.
FetchReadsOnly ==
    \A t \in Threads :
        (frame[t].op = "fetch_history" /\ pc[t] # "idle" /\ Steps(t))
        => db' = db /\ saved' = saved

\* C11 as claimed: for every limit, fetch_history returns exactly the
\* min(limit, n) most recently logged of the n events, most recent first,
\* and changes no table.
C11_HistoryOrdering ==
    [][/\ FetchReadsOnly
       /\ \A t \in Threads :
            FetchReturns(t)
            => MostRecentFirst(result'[t].rows, db.history,
                               Min(frame[t].limit, Len(db.history)))]_vars

\* C11, amended: for every limit >= 0, fetch_history returns exactly the
\* min(limit, n) most recently logged of the n events, most recent first;
\* for a negative limit it returns all n events, most recent first; in both
\* cases it changes no table.
C11_HistoryOrderingOfLimit ==
    [][/\ FetchReadsOnly
       /\ \A t \in Threads :
            FetchReturns(t)
            => MostRecentFirst(result'[t].rows, db.history,
                               IF frame[t].limit >= 0
                               THEN Min(frame[t].limit, Len(db.history))
                               ELSE Len(db.history))]_vars

\* C11 witness: two events are logged and fetch_history(1) has returned the
\* second one alone.
C11_Witness ==
    \E t \in Threads :
        /\ pc[t] = "idle" /\ result[t].op = "fetch_history" /\ frame[t].limit = 1
        /\ Len(db.history) = 2
        /\ Len(result[t].rows) = 1 /\ result[t].rows[1].id = 2
        /\ db.history[1] # db.history[2]

\* Thread t has finished a log_history call that returned an identifier.
LoggedOk(t) == pc[t] = "idle" /\ result[t].op = "log_history" /\ result[t].status = "ok"

\* C12: the INSERT of a successful log_history call appends exactly one row, no other
\* step of the call changes the history, the call returns the identifier
\* of the row it appended, and identifiers grow in the order of appending:
\* a later call returns a larger identifier than every call finished before.
C12_LogAppendsOneRow ==
    [][\A t \in Threads :
         /\ (pc[t] = "log_insert" /\ pc'[t] = "log_exit" /\ frame'[t].err = NoError)
            => /\ Len(db'.history) = Len(db.history) + 1
               /\ SubSeq(db'.history, 1, Len(db.history)) = db.history
         /\ (frame[t].op = "log_history" /\ pc[t] \notin {"idle", "log_insert"} /\ Steps(t))
            => db'.history = db.history
         /\ (pc[t] = "log_exit" /\ pc'[t] = "idle" /\ frame[t].err = NoError)
            => /\ result'[t].status = "ok"
               /\ result'[t].value \in 1..Len(db'.history)
               /\ result'[t].value = Len(db'.history)
               /\ db'.history[result'[t].value].job_name = JobName(t)
               /\ db'.history[result'[t].value].details = frame[t].details
               /\ \A u \in Threads : LoggedOk(u) => result[u].value < result'[t].value]_vars

\* C12 witness: both threads have logged an event, each got the identifier
\* of its own row, and both rows are committed.
C12_Witness ==
    \E t, u \in Threads :
        /\ t # u /\ LoggedOk(t) /\ LoggedOk(u)
        /\ result[t].value = 1 /\ result[u].value = 2
        /\ db.history[1].job_name = JobName(t) /\ db.history[2].job_name = JobName(u)
        /\ saved.history = db.history

----------------------------------------------------------------------------
(* The empty batch *)

\* Thread t calls upsert_scd2 with an empty records sequence in this step.
CallsUpsertOfNothing(t) ==
    /\ pc[t] = "idle" /\ calls' = calls + 1 /\ frame'[t] # frame[t]
    /\ frame'[t].op = "upsert_scd2" /\ frame'[t].records = <<>>

\* C13: upsert_scd2 with an empty records sequence returns 0 at once and
\* leaves every table, index and row, in the connection and as committed,
\* as it was.
C13_EmptyBatch ==
    [][\A t \in Threads :
         CallsUpsertOfNothing(t)
         => /\ pc'[t] = "idle"
            /\ result'[t].op = "upsert_scd2" /\ result'[t].status = "ok"
            /\ result'[t].value = 0
            /\ db' = db /\ saved' = saved /\ inTxn' = inTxn]_vars

\* C13 witness: an upsert of no records has returned 0 on a store whose
\* entity table was never created.
C13_Witness ==
    \E t \in Threads :
        /\ FinishedUpsert(t) /\ frame[t].records = <<>>
        /\ result[t].status = "ok" /\ result[t].value = 0
        /\ ~db.tables[T].exists /\ ~saved.tables[T].exists

----------------------------------------------------------------------------
(* Append-only storage *)

\* Row new is row old, or row old closed: old was current and only its
\* valid_to and is_current differ.
SameOrClosed(old, new) ==
    \/ new = old
    \/ /\ old.is_current = 1 /\ new.is_current = 0
       /\ new = [old EXCEPT !.valid_to = new.valid_to, !.is_current = 0]

\* Database new holds every row of database old: no history row and no
\* entity row is gone, history rows are as they were, entity rows are as
\* they were or closed, and no table is gone.
AppendOnly(old, new) ==
    /\ Len(new.history) >= Len(old.history)
    /\ SubSeq(new.history, 1, Len(old.history)) = old.history
    /\ \A n \in AllTables :
          /\ old.tables[n].exists => new.tables[n].exists
          /\ Len(new.tables[n].rows) >= Len(old.tables[n].rows)
          /\ \A id \in Ids(old.tables[n]) :
                SameOrClosed(old.tables[n].rows[id], new.tables[n].rows[id])

\* C14: every step leaves the committed database append-only, and changes
\* the database the connection sees append-only too, unless the step rolls
\* uncommitted changes back to the committed database.
C14_AppendOnly ==
    [][/\ AppendOnly(saved, saved')
       /\ (AppendOnly(db, db') \/ db' = saved)]_vars

\* C14 witness: the committed database holds a logged event, a closed row
\* and its current successor, and nothing is uncommitted.
C14_Witness ==
    /\ Len(saved.history) >= 1
    /\ \E id \in Ids(saved.tables[T]) :
          /\ saved.tables[T].rows[id].is_current = 0
          /\ \E next \in Ids(saved.tables[T]) :
                next > id /\ saved.tables[T].rows[next].is_current = 1
    /\ db = saved /\ ~inTxn

----------------------------------------------------------------------------
(* Idempotence of the schema calls *)

\* The entity table and both indexes are as an earlier ensure_scd2_table
\* call with the arguments of frame f has left them.
EnsuredBefore(d, f) ==
    /\ f.table \in AllTables
    /\ d.tables[f.table].exists
    /\ d.tables[f.table].keys = f.key_fields
    /\ d.tables[f.table].attrs = f.attribute_fields
    /\ f.key_fields \in d.tables[f.table].key_indexes
    /\ d.tables[f.table].current_index

\* C15: a repeated ensure_history_schema (the first call is made by
\* __init__) and a repeated ensure_scd2_table with the same arguments
\* succeed, and none of their steps changes a table, an index or a row, in
\* the connection or as committed.
C15_EnsureIdempotent ==
    [][\A t \in Threads :
         /\ (pc[t] \in {"ehs_exec", "ehs_exit"} /\ Steps(t))
            => /\ db' = db /\ saved' = saved
               /\ pc'[t] = "idle" => result'[t].status = "ok"
         /\ (/\ frame[t].op = "ensure_scd2_table" /\ pc[t] \in {"est_ddl", "est_exit"}
             /\ Steps(t) /\ EnsuredBefore(db, frame[t]))
            => /\ db' = db /\ saved' = saved
               /\ frame'[t].err = NoError
               /\ pc'[t] = "idle" => result'[t].status = "ok"]_vars

----------------------------------------------------------------------------
(* log_history and the transactions of upsert_scd2 *)

\* Thread t calls log_history with details json.dumps cannot serialize.
CallsLogOfUnserializable(t) ==
    /\ pc[t] = "idle" /\ calls' = calls + 1 /\ frame'[t] # frame[t]
    /\ frame'[t].op = "log_history" /\ frame'[t].details = DictBad

\* C16: a log_history call whose details cannot be serialized raises at
\* once, appends no row and touches neither the connection nor the lock; a
\* log_history call that reaches the connection never executes, commits or
\* rolls back while another thread's upsert transaction is open, changes no
\* entity table, and a failing one leaves no history row behind.
C16_LogOwnTransaction ==
    [][\A t \in Threads :
         /\ CallsLogOfUnserializable(t)
            => /\ pc'[t] = "idle" /\ result'[t].status = "raised"
               /\ db' = db /\ saved' = saved /\ inTxn' = inTxn /\ lockOwner' = lockOwner
         /\ (frame[t].op = "log_history" /\ pc[t] \in {"log_insert", "log_exit"} /\ Steps(t))
            => /\ \A u \in Threads \ {t} : ~UpsertTxnOpen(u)
               /\ db'.tables = db.tables /\ saved'.tables = saved.tables
               /\ (pc'[t] = "idle" /\ frame[t].err # NoError)
                  => /\ result'[t].status = "raised"
                     /\ db'.history = saved.history /\ saved' = saved]_vars

\* C16 witness: one thread's log_history has raised on unserializable
\* details while the other thread's upsert had inserted a row and not yet
\* committed; the row is still in the open transaction.
C16_Witness ==
    \E t, u \in Threads :
        /\ t # u
        /\ pc[t] = "idle" /\ result[t].op = "log_history" /\ result[t].err = "TypeError"
        /\ frame[t].details = DictBad
        /\ UpsertTxnOpen(u) /\ pc[u] = "up_exit" /\ frame[u].err = NoError
        /\ Len(db.tables[T].rows) > Len(saved.tables[T].rows)

----------------------------------------------------------------------------
(* search_address *)

\* C17: the first request of search_address has category ROAD, a second
\* request is made exactly when the first answered NOT_FOUND and has
\* category PARCEL, and there are never more than two requests.
C17_RoadThenParcel ==
    /\ Len(search.requests) <= 2
    /\ Len(search.requests) >= 1 => search.requests[1] = "ROAD"
    /\ Len(search.requests) = 2
       => search.requests[2] = "PARCEL" /\ search.statuses[1] = "NOT_FOUND"
    /\ (search.pc \in {"filter", "done"} /\ Len(search.statuses) >= 1
        /\ search.statuses[1] = "NOT_FOUND")
       => Len(search.requests) = 2

----------------------------------------------------------------------------
(* The value upsert_scd2 returns *)

\* The key tuple of a record as the table stores it.
StoredKey(record, key_fields) ==
    [n \in 1..Len(key_fields) |-> Stored(Get(record, key_fields[n]))]

\* The hash of the version that is current for record i's key when record
\* i of the batch is processed: that of the latest earlier record of the
\* batch with the same key, else that of the key's current row in the
\* table the batch started from, else none.
HashBefore(tbl, records, key_fields, fields, i) ==
    LET key == StoredKey(records[i], key_fields)
        earlier == {j \in 1..(i - 1) : StoredKey(records[j], key_fields) = key}
        stored == {id \in IdsOfKey(tbl, key) : tbl.rows[id].is_current = 1}
    IN  IF earlier # {} THEN ComputeHash(records[Max(earlier)], fields)
        ELSE IF tbl.exists /\ stored # {} THEN tbl.rows[Max(stored)].row_hash
        ELSE <<"none">>

\* The records of the batch that are new or changed when they are processed.
NewOrChanged(tbl, records, key_fields, fields) ==
    {i \in 1..Len(records) :
        HashBefore(tbl, records, key_fields, fields, i) # ComputeHash(records[i], fields)}

\* C18: a successful upsert returns the number of rows it added to the
\* table, which is the number of records that were new or changed when
\* they were processed; skipping an unchanged record changes nothing and
\* counts nothing.
C18_ReturnsInsertedCount ==
    [][\A t \in Threads :
         /\ (pc[t] = "up_exit" /\ pc'[t] = "idle" /\ frame[t].err = NoError)
            => LET f == frame[t]
               IN  /\ result'[t].status = "ok"
                   /\ result'[t].value
                        = Len(db'.tables[f.table].rows) - Len(f.atBatch.rows)
                   /\ result'[t].value
                        = Cardinality(NewOrChanged(f.atBatch, f.records, f.key_fields,
                                                   f.attribute_fields))
         /\ (pc[t] = "up_select" /\ pc'[t] = "up_select" /\ frame'[t].i = frame[t].i + 1)
            => /\ db' = db /\ saved' = saved
               /\ frame'[t].inserted = frame[t].inserted]_vars

\* C18 witness: an upsert of two records, one equal to the current row of
\* its key and skipped, the other closing the row that was current when
\* the batch started, has returned 1.
C18_Witness ==
    \E t \in Threads :
        /\ FinishedUpsert(t) /\ result[t].status = "ok"
        /\ Len(frame[t].records) = 2 /\ result[t].value = 1
        /\ Len(db.tables[T].rows) = Len(frame[t].atBatch.rows) + 1
        /\ \E id \in Ids(frame[t].atBatch) :
              /\ frame[t].atBatch.rows[id].is_current = 1
              /\ db.tables[T].rows[id].is_current = 0

----------------------------------------------------------------------------
(* The version chain *)

\* The row of the same key that follows row id in identifier order (0: none).
NextOfKey(tbl, id) ==
    LET later == {j \in IdsOfKey(tbl, KeyOf(tbl, id)) : j > id}
    IN  IF later = {} THEN 0 ELSE CHOOSE j \in later : \A k \in later : j <= k

\* In database d every row is current exactly when its valid_to is the
\* sentinel, a current row is the last row of its key, and a closed row is
\* followed by a row of its key whose valid_from is the closed row's
\* valid_to.
VersionChainIn(d) ==
    \A n \in AllTables : \A id \in Ids(d.tables[n]) :
        LET tbl == d.tables[n]
            row == tbl.rows[id]
        IN  /\ row.is_current = 1 <=> row.valid_to = Sentinel
            /\ row.is_current = 1 => NextOfKey(tbl, id) = 0
            /\ row.is_current = 0
               => /\ NextOfKey(tbl, id) # 0
                  /\ tbl.rows[NextOfKey(tbl, id)].valid_from = row.valid_to

\* C19: the version-chain invariant holds of the committed database in
\* every reachable state.
C19_VersionChain == VersionChainIn(saved)

\* ---------------------------------------------------------------------
\* C20: the tie-break among several current rows of one key
\* ---------------------------------------------------------------------

\* The ids of the rows of tbl that are current for the key of record.
CurrentOfKey(tbl, record, key_fields) ==
    {id \in IdsOfKey(tbl, StoredKey(record, key_fields)) : tbl.rows[id].is_current = 1}

\* Thread t is at record i of a batch whose key has several current rows.
AtTie(t) ==
    /\ pc[t] \in {"up_select", "up_update"}
    /\ frame[t].i \in 1..Len(frame[t].records)
    /\ db.tables[frame[t].table].exists
    /\ Cardinality(CurrentOfKey(db.tables[frame[t].table], frame[t].records[frame[t].i],
                                frame[t].key_fields)) > 1

\* C20: when the table holds more than one current row for the key of
\* the record being processed, the lookup compares the record's hash with
\* that of the current row with the largest id: on equal hashes the
\* record is skipped, otherwise that row is the one selected, and the
\* closing UPDATE closes that row and changes no other row, the other
\* current rows of the key staying current; the INSERT of the new version
\* follows.
C20_TieBreak ==
    [][\A t \in Threads :
         AtTie(t) =>
           LET f == frame[t]
               tbl == db.tables[f.table]
               record == f.records[f.i]
               largest == Max(CurrentOfKey(tbl, record, f.key_fields))
           IN  /\ (pc[t] = "up_select" /\ Steps(t) /\ frame'[t].err = NoError)
                  => IF tbl.rows[largest].row_hash = ComputeHash(record, f.attribute_fields)
                     THEN pc'[t] = "up_select" /\ frame'[t].i = f.i + 1 /\ db' = db
                     ELSE pc'[t] = "up_update" /\ frame'[t].current = largest /\ db' = db
               /\ (pc[t] = "up_update" /\ Steps(t))
                  => /\ f.current = largest
                     /\ pc'[t] = "up_insert"
                     /\ db'.tables[f.table].rows[largest].is_current = 0
                     /\ Len(db'.tables[f.table].rows) = Len(tbl.rows)
                     /\ \A id \in Ids(tbl) \ {largest} :
                          db'.tables[f.table].rows[id] = tbl.rows[id]]_vars

\* C20 witness: the table started with rows 1 and 2 both current for key
\* k1; an upsert of a changed record has closed row 2, left row 1 current
\* and inserted row 3 as a current version.
C20_Witness ==
    /\ workload = "tiebreak"
    /\ Len(saved.tables[T].rows) >= 3
    /\ saved.tables[T].rows[1].is_current = 1
    /\ saved.tables[T].rows[2].is_current = 0
    /\ saved.tables[T].rows[3].is_current = 1
    /\ {1, 2, 3} \subseteq IdsOfKey(saved.tables[T], <<"k1">>)

\* ---------------------------------------------------------------------
\* C21: which attribute fields an upsert hashes and stores
\* ---------------------------------------------------------------------

\* Every field of the first record that is not a key field, in the first
\* record's order.
InferredFields(records, key_fields) ==
    SelectSeq(Keys(records[1]), LAMBDA field : field \notin Range(key_fields))

\* The fields of a call that passes attribute_fields as given, and infers
\* them only when the argument is omitted.
FieldsWhenPassed(f) ==
    IF f.attrs_arg # Omitted THEN f.attrs_arg ELSE InferredFields(f.records, f.key_fields)

\* The fields of a call that takes a non-empty attribute_fields as given,
\* and infers them when the argument is omitted or empty.
FieldsWhenNonEmpty(f) ==
    IF f.attrs_arg \notin {Omitted, <<>>} THEN f.attrs_arg
    ELSE InferredFields(f.records, f.key_fields)

\* Thread t of an upsert creates the table, or inserts the version of
\* record i, with these fields: the table's attribute columns are the
\* fields; the hash is taken over the record's values of the fields, an
\* absent one as the empty string; the row stores the record's value in
\* each field's column, NULL for an absent one, and NULL in every column
\* that is neither a key nor one of the fields.
UsesFields(t, fields) ==
    LET f == frame[t]
        tbl == db.tables[f.table]
        tblAfter == db'.tables[f.table]
        record == f.records[f.i]
        row == tblAfter.rows[Len(tblAfter.rows)]
    IN  /\ (pc[t] = "est_ddl" /\ pc'[t] = "est_exit" /\ ~tbl.exists /\ tblAfter.exists)
           => tblAfter.attrs = ColumnNames(fields)
        /\ (pc[t] = "up_insert" /\ pc'[t] = "up_select")
           => /\ Len(tblAfter.rows) = Len(tbl.rows) + 1
              /\ row.row_hash = ComputeHash(record, fields)
              /\ \A n \in 1..Len(fields) :
                    row.vals[ColumnName(fields[n])] = Stored(Get(record, fields[n]))
              /\ \A c \in Columns(tbl) \ (Range(ColumnNames(f.key_fields))
                                           \cup Range(ColumnNames(fields))) :
                    row.vals[c] = None

\* C21 as stated: an upsert hashes and stores exactly the attribute_fields
\* passed, and infers the fields (every non-key field of the first
\* record, in its order, used for every record of the batch) only when
\* the argument is omitted.
C21_AttributeFields ==
    [][\A t \in Threads :
         (frame[t].op = "upsert_scd2" /\ frame[t].table \in AllTables)
            => UsesFields(t, FieldsWhenPassed(frame[t]))]_vars

\* C21, amended: an upsert hashes and stores exactly the attribute_fields
\* passed when that list is not empty; when the argument is omitted or is
\* an empty list it infers the fields as every field of the first record
\* that is not a key field, in the first record's order, and uses that one
\* list for every record of the batch: a field absent from a later record
\* is stored as NULL and hashed as the empty string.
C21_AttributeFieldsNonEmpty ==
    [][\A t \in Threads :
         (frame[t].op = "upsert_scd2" /\ frame[t].table \in AllTables)
            => UsesFields(t, FieldsWhenNonEmpty(frame[t]))]_vars

\* C21 witness: an upsert that omitted attribute_fields and whose first
\* record lists b before a is inserting the version of its second record,
\* which has no field b, after the first: the table's attribute columns
\* are b, a, the row of the first record holds b = y and the hash of "yx".
C21_Witness ==
    /\ workload = "fields"
    /\ \E t \in Threads :
         /\ pc[t] = "up_insert"
         /\ frame[t].attrs_arg = Omitted
         /\ frame[t].records = <<Rec2Reversed("k1", "x", "y"), Rec("k1", "x")>>
         /\ frame[t].i = 2
         /\ frame[t].row_hash = Sha256Hex("x")
         /\ db.tables[T].attrs = <<B, A>>
         /\ db.tables[T].rows[Len(db.tables[T].rows)].row_hash = Sha256Hex("yx")
         /\ db.tables[T].rows[Len(db.tables[T].rows)].vals[B] = "y"

\* ---------------------------------------------------------------------
\* C22: the timestamps of the versions of a key
\* ---------------------------------------------------------------------

\* Every closed row of d has valid_from <= valid_to, and the rows of one
\* key have non-decreasing valid_from in id order.
TimestampsOrderedIn(d) ==
    \A n \in AllTables :
        LET tbl == d.tables[n]
        IN  /\ \A id \in Ids(tbl) :
                 tbl.rows[id].is_current = 0 => tbl.rows[id].valid_from <= tbl.rows[id].valid_to
            /\ \A i, j \in Ids(tbl) :
                 (i < j /\ KeyOf(tbl, i) = KeyOf(tbl, j))
                    => tbl.rows[i].valid_from <= tbl.rows[j].valid_from

\* C22: with a clock that never runs backwards, under every interleaving
\* of concurrent upserts every committed closed row has valid_from <=
\* valid_to and the committed versions of a key have non-decreasing
\* valid_from in id order.
C22_TimestampsOrdered == TimestampsOrderedIn(saved)

\* ---------------------------------------------------------------------
\* C23: what an upsert and a log_history leave alone
\* ---------------------------------------------------------------------

\* The key tuples that occur in the batch of call f, as stored.
KeysOfBatch(f) == {StoredKey(f.records[i], f.key_fields) : i \in 1..Len(f.records)}

\* Between databases old and new, only rows of table f.table whose key
\* tuple occurs in the batch of f differ: the history, every other table
\* and the rows of the other key tuples are the same.
UpsertFrame(f, old, new) ==
    /\ new.history = old.history
    /\ \A n \in AllTables \ {f.table} : new.tables[n] = old.tables[n]
    /\ f.table \in AllTables =>
         LET before == old.tables[f.table]
             after == new.tables[f.table]
         IN  /\ \A id \in Ids(before) :
                   KeyOf(before, id) \notin KeysOfBatch(f)
                      => id \in Ids(after) /\ after.rows[id] = before.rows[id]
             /\ \A id \in Ids(after) :
                   KeyOf(after, id) \notin KeysOfBatch(f)
                      => id \in Ids(before) /\ after.rows[id] = before.rows[id]

\* C23: every step of an upsert_scd2 call on table T, as seen through the
\* connection and as committed, changes only rows of T whose key tuple
\* occurs in the batch: rows of other key tuples in T, every other entity
\* table and the history table are unchanged.  Every step of a
\* log_history call leaves every entity table unchanged.
C23_Frame ==
    [][\A t \in Threads :
         /\ (Steps(t) /\ frame'[t].op = "upsert_scd2")
            => UpsertFrame(frame'[t], db, db') /\ UpsertFrame(frame'[t], saved, saved')
         /\ (Steps(t) /\ frame'[t].op = "log_history")
            => db'.tables = db.tables /\ saved'.tables = saved.tables]_vars

\* C23 witness: on a database where table t holds current rows of k1 and
\* k2, table u a row and the history an event, an upsert of a changed k1
\* into t is about to commit: it closed the row of k1 and inserted its new
\* version; the row of k2, table u and the history are as they were.
C23_Witness ==
    /\ workload = "frame"
    /\ \E t \in Threads :
         /\ pc[t] = "up_exit" /\ frame[t].err = NoError
         /\ frame[t].table = T
         /\ frame[t].records = <<Rec("k1", "y")>>
         /\ Len(db.tables[T].rows) = 3
         /\ db.tables[T].rows[1].is_current = 0
         /\ db.tables[T].rows[3].is_current = 1
         /\ db.tables[T].rows[2] = FilledDb.tables[T].rows[2]
         /\ db.tables[U] = FilledDb.tables[U] /\ db.tables[U].rows # <<>>
         /\ db.history = FilledDb.history /\ db.history # <<>>

====
